---- MODULE Spec2Model ----
(***************************************************************************)
(* Product catalog service: the Cosmos DB product repository               *)
(* (CosmosProductRepo: toDocument, toDomain, mapCosmosError, create, get)  *)
(* and the list endpoint (listProductsHttp).                               *)
(*                                                                         *)
(* JavaScript values are modelled as follows.                              *)
(*   - undefined (an absent optional property) is the string UNDEF.        *)
(*   - A Date is [nan, day, ms]: nan for an Invalid Date, otherwise the    *)
(*     time value day * 86400000 + ms (split because a time value does     *)
(*     not fit TLC's 32-bit integers).                                    *)
(*   - An ISO-8601 string "YYYY-MM-DDTHH:mm:ss.sssZ" is the record of its  *)
(*     numeric fields [Y, M, D, h, m, s, ms].                              *)
(*   - A thrown value is [kind, code, message]; kind tells an object or a  *)
(*     primitive (property reads give undefined) from null and undefined   *)
(*     (property reads throw a TypeError).                                 *)
(*   - A completion is [type, value]: "return" (the promise resolves with  *)
(*     value) or "throw" (the promise rejects with value).                 *)
(***************************************************************************)
EXTENDS Integers, Sequences, FiniteSets, TLC

VARIABLES store, pc, created, last, probe

vars == <<store, pc, created, last, probe>>

\* Number of concurrent callers of the repository.
NumCallers == 2

Callers == 1..NumCallers

UNDEF == "undefined"

Return(v) == [type |-> "return", value |-> v]

Throw(e) == [type |-> "throw", value |-> e]

-----------------------------------------------------------------------------
(* Dates and their ISO-8601 form (Date.prototype.toISOString, new Date(s)) *)

Date(day, ms) == [nan |-> FALSE, day |-> day, ms |-> ms]

InvalidDate == [nan |-> TRUE, day |-> 0, ms |-> 0]

\* Year, month and day of the civil date `z` days after 1970-01-01.
CivilFromDays(z) ==
  LET zz == z + 719468
      era == zz \div 146097
      doe == zz - era * 146097
      yoe == (doe - doe \div 1460 + doe \div 36524 - doe \div 146096) \div 365
      doy == doe - (365 * yoe + yoe \div 4 - yoe \div 100)
      mp == (5 * doy + 2) \div 153
      d == doy - (153 * mp + 2) \div 5 + 1
      m == IF mp < 10 THEN mp + 3 ELSE mp - 9
      y == yoe + era * 400 + (IF m <= 2 THEN 1 ELSE 0)
  IN [Y |-> y, M |-> m, D |-> d]

\* Days from 1970-01-01 to the civil date y-m-d.
DaysFromCivil(y, m, d) ==
  LET yy == IF m <= 2 THEN y - 1 ELSE y
      era == yy \div 400
      yoe == yy - era * 400
      doy == (153 * (IF m > 2 THEN m - 3 ELSE m + 9) + 2) \div 5 + d - 1
      doe == yoe * 365 + yoe \div 4 - yoe \div 100 + doy
  IN era * 146097 + doe - 719468

RangeError == [kind |-> "object",
               code |-> [t |-> "undefined", n |-> 0, s |-> <<>>],
               message |-> "Invalid time value"]

\* Date.prototype.toISOString: throws a RangeError on an Invalid Date.
toISOString(date) ==
  IF date.nan THEN Throw(RangeError)
  ELSE LET c == CivilFromDays(date.day)
       IN Return([Y |-> c.Y, M |-> c.M, D |-> c.D,
                  h |-> date.ms \div 3600000,
                  m |-> (date.ms \div 60000) % 60,
                  s |-> (date.ms \div 1000) % 60,
                  ms |-> date.ms % 1000])

IsLeap(y) == (y % 4 = 0 /\ y % 100 # 0) \/ y % 400 = 0

DaysInMonth(y, m) ==
  IF m = 2 THEN (IF IsLeap(y) THEN 29 ELSE 28)
  ELSE IF m \in {4, 6, 9, 11} THEN 30 ELSE 31

\* new Date(isoString): never throws; a malformed string gives an Invalid Date.
DateParse(iso) ==
  IF /\ iso.M \in 1..12
     /\ iso.D \in 1..DaysInMonth(iso.Y, iso.M)
     /\ iso.h \in 0..23 /\ iso.m \in 0..59 /\ iso.s \in 0..59 /\ iso.ms \in 0..999
  THEN Date(DaysFromCivil(iso.Y, iso.M, iso.D),
            iso.h * 3600000 + iso.m * 60000 + iso.s * 1000 + iso.ms)
  ELSE InvalidDate

-----------------------------------------------------------------------------
(* Document Mapper                                                         *)

DomainFields == {"id", "name", "price", "category", "description", "inStock",
                 "createdAt"}

MetaFields == {"_rid", "_self", "_etag", "_attachments", "_ts"}

\* toDocument: a completion, because createdAt.toISOString() can throw.
toDocument(product) ==
  LET iso == toISOString(product.createdAt)
  IN IF iso.type = "throw" THEN iso
     ELSE Return([id |-> product.id, name |-> product.name,
                  price |-> product.price, category |-> product.category,
                  description |-> product.description,
                  inStock |-> product.inStock, createdAt |-> iso.value])

\* A mapper that parses createdAt to whole seconds.
toDomainSeconds(document) ==
  [id |-> document.id, name |-> document.name, price |-> document.price,
   category |-> document.category, description |-> document.description,
   inStock |-> document.inStock,
   createdAt |-> DateParse([document.createdAt EXCEPT !.ms = 0])]

\* A mapper that forgets the optional description.
toDomainNoDescription(document) ==
  [id |-> document.id, name |-> document.name, price |-> document.price,
   category |-> document.category, description |-> UNDEF,
   inStock |-> document.inStock,
   createdAt |-> DateParse(document.createdAt)]

toDomain(document) ==
  [id |-> document.id, name |-> document.name, price |-> document.price,
   category |-> document.category, description |-> document.description,
   inStock |-> document.inStock,
   createdAt |-> DateParse(document.createdAt)]

-----------------------------------------------------------------------------
(* Error Translator                                                        *)

NoCode == [t |-> "undefined", n |-> 0, s |-> <<>>]

Num(n) == [t |-> "number", n |-> n, s |-> <<>>]

\* A string code, as the sequence of its characters.
Str(s) == [t |-> "string", n |-> 0, s |-> s]

Digits == <<"0", "1", "2", "3", "4", "5", "6", "7", "8", "9">>

DigitValue(ch) == (CHOOSE i \in 1..10 : Digits[i] = ch) - 1

RECURSIVE DecimalValue(_)
DecimalValue(s) ==
  IF s = <<>> THEN 0
  ELSE 10 * DecimalValue(SubSeq(s, 1, Len(s) - 1)) + DigitValue(s[Len(s)])

\* ToNumber of a property value: [nan, n].  undefined and a string that is
\* no decimal numeral give NaN; the empty string gives 0.
ToNumber(code) ==
  CASE code.t = "number" -> [nan |-> FALSE, n |-> code.n]
    [] code.t = "undefined" -> [nan |-> TRUE, n |-> 0]
    [] code.t = "string" ->
         IF \A i \in 1..Len(code.s) : \E j \in 1..10 : Digits[j] = code.s[i]
         THEN [nan |-> FALSE, n |-> DecimalValue(code.s)]
         ELSE [nan |-> TRUE, n |-> 0]

\* x === n: no conversion, a string never equals a number.
StrictEquals(code, n) == code.t = "number" /\ code.n = n

\* x >= n and x < n: x is converted with ToNumber; NaN compares false.
GreaterOrEqual(code, n) == ~ToNumber(code).nan /\ ToNumber(code).n >= n

LessThan(code, n) == ~ToNumber(code).nan /\ ToNumber(code).n < n

\* x || fallback on a message: undefined and "" are falsy.
OrElse(message, fallback) ==
  IF message = UNDEF \/ message = "" THEN fallback ELSE message

\* Reading a property of null or undefined throws a TypeError.
Nullish(error) == error.kind \in {"null", "undefined"}

TypeError == [kind |-> "object", code |-> NoCode,
              message |-> "Cannot read properties of undefined (reading 'code')"]

RepositoryError(code, message) == [code |-> code, message |-> message]

\* A translator that tests the generic 4xx range before 409 and 404.
mapCosmosErrorRangeFirst(error) ==
  IF Nullish(error) THEN Throw(TypeError)
  ELSE IF GreaterOrEqual(error.code, 400) /\ LessThan(error.code, 500)
  THEN Return(RepositoryError("VALIDATION_ERROR",
                              OrElse(error.message, "Invalid request")))
  ELSE Return(RepositoryError("PERSISTENCE_ERROR",
         OrElse(error.message,
                "An error occurred while accessing the database")))

\* mapCosmosError: a completion, because error.code throws on null/undefined.
mapCosmosError(error) ==
  IF Nullish(error) THEN Throw(TypeError)
  ELSE IF StrictEquals(error.code, 409)
  THEN Return(RepositoryError("ALREADY_EXISTS",
                              "A product with this ID already exists"))
  ELSE IF StrictEquals(error.code, 404)
  THEN Return(RepositoryError("NOT_FOUND", "Product not found"))
  ELSE IF GreaterOrEqual(error.code, 400) /\ LessThan(error.code, 500)
  THEN Return(RepositoryError("VALIDATION_ERROR",
                              OrElse(error.message, "Invalid request")))
  ELSE Return(RepositoryError("PERSISTENCE_ERROR",
         OrElse(error.message,
                "An error occurred while accessing the database")))

-----------------------------------------------------------------------------
(* Storage Adapter: the code of create and get around their one await      *)

\* What the awaited store call settles with: a response carrying a resource,
\* a response without one, or a thrown failure.
Resource(doc) == [kind |-> "resource", resource |-> doc, error |-> UNDEF]

Empty == [kind |-> "empty", resource |-> UNDEF, error |-> UNDEF]

Thrown(e) == [kind |-> "throw", resource |-> UNDEF, error |-> e]

\* catch (error) { return { success: false, error: mapCosmosError(error) } }
\* A throw inside the catch clause leaves the async function: it rejects.
CatchClause(error) ==
  LET m == mapCosmosError(error)
  IN IF m.type = "throw" THEN m
     ELSE Return([success |-> FALSE, error |-> m.value])

\* A create that also reports the empty response as created.
createAfterAwaitBoth(reply, product) ==
  IF reply.kind = "throw" THEN CatchClause(reply.error)
  ELSE IF reply.kind = "resource"
  THEN Return([success |-> TRUE, data |-> toDomain(reply.resource)])
  ELSE Return([success |-> TRUE, data |-> product,
               error |-> RepositoryError("PERSISTENCE_ERROR",
                 "Failed to create product - no resource returned")])

\* A create that hands the empty response to the Error Translator.
createAfterAwaitTranslated(reply, product) ==
  IF reply.kind = "throw" THEN CatchClause(reply.error)
  ELSE IF reply.kind = "resource"
  THEN Return([success |-> TRUE, data |-> toDomain(reply.resource)])
  ELSE CatchClause([kind |-> "object", code |-> NoCode, message |-> UNDEF])

\* A create that takes the store's conflict for a product already created.
createAfterAwaitIdempotent(reply, product) ==
  IF reply.kind = "throw"
  THEN IF ~Nullish(reply.error) /\ StrictEquals(reply.error.code, 409)
       THEN Return([success |-> TRUE, data |-> product])
       ELSE CatchClause(reply.error)
  ELSE IF reply.kind = "resource"
  THEN Return([success |-> TRUE, data |-> toDomain(reply.resource)])
  ELSE Return([success |-> FALSE,
               error |-> RepositoryError("PERSISTENCE_ERROR",
                 "Failed to create product - no resource returned")])

\* create, resumed with the settled store call (product is the argument).
createAfterAwait(reply, product) ==
  IF reply.kind = "throw" THEN CatchClause(reply.error)
  ELSE IF reply.kind = "resource"
  THEN Return([success |-> TRUE, data |-> toDomain(reply.resource)])
  ELSE Return([success |-> FALSE,
               error |-> RepositoryError("PERSISTENCE_ERROR",
                 "Failed to create product - no resource returned")])

\* A get that reports the empty response as a persistence failure.
getAfterAwaitPersistence(reply, id) ==
  IF reply.kind = "throw" THEN CatchClause(reply.error)
  ELSE IF reply.kind = "resource"
  THEN Return([success |-> TRUE, data |-> toDomain(reply.resource)])
  ELSE Return([success |-> FALSE,
               error |-> RepositoryError("PERSISTENCE_ERROR",
                 "Product with ID '" \o id \o "' not found")])

\* get, resumed with the settled store call.
getAfterAwait(reply, id) ==
  IF reply.kind = "throw" THEN CatchClause(reply.error)
  ELSE IF reply.kind = "resource"
  THEN Return([success |-> TRUE, data |-> toDomain(reply.resource)])
  ELSE Return([success |-> FALSE,
               error |-> RepositoryError("NOT_FOUND",
                 "Product with ID '" \o id \o "' not found")])

-----------------------------------------------------------------------------
(* The document store behind container.items.create and container.item.read *)

Ids == {"PROD-100", "PROD-200"}

\* The store keeps the document and adds its system properties.
StoreWrite(doc) ==
  [f \in DOMAIN doc \cup MetaFields |->
     IF f \in DOMAIN doc THEN doc[f]
     ELSE IF f = "_ts" THEN 1700000000 ELSE f \o ":" \o doc.id]

Put(st, doc) ==
  [i \in DOMAIN st \cup {doc.id} |-> IF i = doc.id THEN StoreWrite(doc) ELSE st[i]]

Conflict == [kind |-> "object", code |-> Num(409),
             message |-> "Entity with the specified id already exists in the system."]

NotFound == [kind |-> "object", code |-> Num(404),
             message |-> "Entity with the specified id does not exist in the system."]

\* Failures of the call itself (the request or its response is lost).
Faults ==
  { [kind |-> "object", code |-> Num(503), message |-> "Service Unavailable"],
    [kind |-> "undefined", code |-> NoCode, message |-> UNDEF] }

\* Every way an insert with disableAutomaticIdGeneration can settle: [reply,
\* store, via].  The insert is atomic per id: it writes only when the id is
\* free and otherwise answers 409.  A write may be answered with the stored
\* resource or with no resource body, or its answer may be lost.
InsertOutcomes(st, doc) ==
  { [reply |-> Thrown(f), store |-> st, via |-> "fault"] : f \in Faults }
  \cup
  IF doc.id \in DOMAIN st
  THEN { [reply |-> Thrown(Conflict), store |-> st, via |-> "store"] }
  ELSE { [reply |-> Resource(Put(st, doc)[doc.id]), store |-> Put(st, doc),
          via |-> "store"],
         [reply |-> Empty, store |-> Put(st, doc), via |-> "store"] }
       \cup { [reply |-> Thrown(f), store |-> Put(st, doc), via |-> "fault"] :
              f \in Faults }

\* Every way a point read of item (id, id) can settle.  Absence is signalled
\* by a response without a resource or by a thrown 404.
ReadOutcomes(st, id) ==
  { [reply |-> Thrown(f), via |-> "fault"] : f \in Faults }
  \cup
  IF id \in DOMAIN st
  THEN { [reply |-> Resource(st[id]), via |-> "store"] }
  ELSE { [reply |-> Empty, via |-> "store"],
         [reply |-> Thrown(NotFound), via |-> "store"] }

-----------------------------------------------------------------------------
(* Products the callers pass                                               *)

Laptop(id) ==
  [id |-> id, name |-> "Laptop", price |-> 99999, category |-> "Electronics",
   description |-> "15 inch", inStock |-> TRUE,
   createdAt |-> Date(19723, 45296789)]

Cable(id) ==
  [id |-> id, name |-> "Cable", price |-> 0, category |-> "Accessories",
   description |-> UNDEF, inStock |-> FALSE,
   createdAt |-> Date(789, 86399999)]

Undated(id) == [Laptop(id) EXCEPT !.createdAt = InvalidDate]

Products ==
  { Laptop(id) : id \in Ids } \cup { Cable(id) : id \in Ids }
  \cup { Undated("PROD-100") }

-----------------------------------------------------------------------------
(* The list endpoint                                                       *)

\* JSON.stringify of a product: a Date becomes its ISO string and a property
\* whose value is undefined (only description is optional) is left out.
toJSON(product) ==
  LET keys == { f \in DomainFields :
                  f # "description" \/ product.description # UNDEF }
  IN [f \in keys |->
        IF f = "createdAt" THEN toISOString(product.createdAt).value
        ELSE product[f]]

mockProducts(now) ==
  << [id |-> "PROD-001", name |-> "Sample Product 1", price |-> 9999,
      category |-> "Electronics",
      description |-> "A sample product for demonstration",
      inStock |-> TRUE, createdAt |-> now],
     [id |-> "PROD-002", name |-> "Sample Product 2", price |-> 4999,
      category |-> "Accessories", description |-> UNDEF,
      inStock |-> FALSE, createdAt |-> now] >>

\* A list wired to the repository: it issues a store query and answers with
\* what the query found (nothing, when no product was listed).
listProductsHttpWired(now) ==
  [status |-> 200,
   headers |-> [ContentType |-> "application/json", CacheControl |-> "no-cache"],
   body |-> [success |-> TRUE, data |-> <<>>,
             metadata |-> [count |-> 0, timestamp |-> toISOString(now).value]],
   issued |-> <<"query">>]

\* listProductsHttp at the instant `now`: the HttpResponseInit, its body as
\* the JSON value, and the store requests the handler issues (none: the
\* repository call is commented out).
listProductsHttp(now) ==
  LET data == mockProducts(now)
  IN [status |-> 200,
      headers |-> [ContentType |-> "application/json", CacheControl |-> "no-cache"],
      body |-> [success |-> TRUE,
                data |-> [i \in 1..Len(data) |-> toJSON(data[i])],
                metadata |-> [count |-> Len(data),
                              timestamp |-> toISOString(now).value]],
      issued |-> <<>>]

Instants == { Date(19723, 45296789), Date(20000, 0) }

-----------------------------------------------------------------------------
(* State machine                                                           *)
(*   store    the documents held by the container, by id                   *)
(*   pc       per caller, the repository call it is suspended in           *)
(*   created  per id, the products whose create returned success           *)
(*   last     the call that completed last: arguments, how the store call  *)
(*            settled (reply; via the store or a fault of the call; held:  *)
(*            the id was stored already), the store requests it issued     *)
(*            and the completion the caller got                            *)
(*   probe    input and output of a mapper or translator application       *)

Idle == [op |-> "idle"]

Init ==
  /\ store = [i \in {} |-> UNDEF]
  /\ pc = [c \in Callers |-> Idle]
  /\ created = [i \in Ids |-> <<>>]
  /\ last = [op |-> "none"]
  /\ probe = [op |-> "none"]

\* created, after a create of `product` completed with `outcome`.
Record(cr, product, outcome) ==
  IF outcome.type = "return" /\ outcome.value.success
  THEN [cr EXCEPT ![product.id] = Append(@, product)]
  ELSE cr


\* create(product) up to its await: toDocument, then the insert is issued.
\* When toDocument throws, the catch clause completes the call at once.
CreateCall(c, product) ==
  /\ pc[c].op = "idle"
  /\ LET d == toDocument(product)
     IN IF d.type = "throw"
        THEN /\ last' = [op |-> "create", product |-> product,
                         id |-> product.id,
                         held |-> product.id \in DOMAIN store,
                         via |-> "none", reply |-> Thrown(d.value),
                         issued |-> <<>>,
                         outcome |-> CatchClause(d.value)]
             /\ UNCHANGED pc
        ELSE /\ pc' = [pc EXCEPT ![c] = [op |-> "create", product |-> product,
                                         document |-> d.value]]
             /\ UNCHANGED last
  /\ UNCHANGED <<store, created, probe>>

\* The store settles the insert and create resumes to its return.
CreateSettle(c) ==
  /\ pc[c].op = "create"
  /\ \E o \in InsertOutcomes(store, pc[c].document) :
       LET outcome == createAfterAwait(o.reply, pc[c].product)
       IN /\ store' = o.store
          /\ last' = [op |-> "create", product |-> pc[c].product,
                      id |-> pc[c].document.id,
                      held |-> pc[c].document.id \in DOMAIN store,
                      via |-> o.via, reply |-> o.reply,
                      issued |-> <<"insert">>,
                      outcome |-> outcome]
          /\ created' = Record(created, pc[c].product, outcome)
  /\ pc' = [pc EXCEPT ![c] = Idle]
  /\ UNCHANGED probe

\* get(id) up to its await: the point read of item (id, id) is issued.
GetCall(c, id) ==
  /\ pc[c].op = "idle"
  /\ pc' = [pc EXCEPT ![c] = [op |-> "get", id |-> id]]
  /\ UNCHANGED <<store, created, last, probe>>

\* The store settles the read and get resumes to its return.
GetSettle(c) ==
  /\ pc[c].op = "get"
  /\ \E o \in ReadOutcomes(store, pc[c].id) :
       last' = [op |-> "get", id |-> pc[c].id,
                held |-> pc[c].id \in DOMAIN store,
                via |-> o.via, reply |-> o.reply,
                issued |-> <<"read">>,
                outcome |-> getAfterAwait(o.reply, pc[c].id)]
  /\ pc' = [pc EXCEPT ![c] = Idle]
  /\ UNCHANGED <<store, created, probe>>

\* One invocation of the list endpoint.
ListProducts(now) ==
  /\ last' = [op |-> "list", response |-> listProductsHttp(now),
              issued |-> listProductsHttp(now).issued]
  /\ UNCHANGED <<store, pc, created, probe>>

Next ==
  \/ \E c \in Callers, product \in Products : CreateCall(c, product)
  \/ \E c \in Callers : CreateSettle(c)
  \/ \E c \in Callers, id \in Ids : GetCall(c, id)
  \/ \E c \in Callers : GetSettle(c)
  \/ \E now \in Instants : ListProducts(now)

Spec == Init /\ [][Next]_vars

-----------------------------------------------------------------------------
(* The mapper and the translator on their own                              *)

MapperDates ==
  { Date(d, t) : d \in {-1, 0, 58, 59, 789, 11016, 19723, 2932896},
                 t \in {0, 999, 45296789, 86399999} }

MapperProducts ==
  { [id |-> id, name |-> "Laptop", price |-> price,
     category |-> "Electronics", description |-> description,
     inStock |-> inStock, createdAt |-> createdAt] :
      id \in Ids, price \in {0, 99999}, description \in {UNDEF, "", "15 inch"},
      inStock \in BOOLEAN, createdAt \in MapperDates \cup {InvalidDate} }

InitMapper ==
  /\ store = [i \in {} |-> UNDEF]
  /\ pc = [c \in Callers |-> Idle]
  /\ created = [i \in Ids |-> <<>>]
  /\ last = [op |-> "none"]
  /\ probe \in { [op |-> "product", product |-> p] : p \in MapperProducts }

MapToDocument ==
  /\ probe.op = "product"
  /\ probe' = [op |-> "document", product |-> probe.product,
               document |-> toDocument(probe.product)]
  /\ UNCHANGED <<store, pc, created, last>>

MapToDomain ==
  /\ probe.op = "document"
  /\ probe.document.type = "return"
  /\ probe' = [op |-> "domain", product |-> probe.product,
               document |-> probe.document,
               domain |-> toDomain(probe.document.value)]
  /\ UNCHANGED <<store, pc, created, last>>

NextMapper == MapToDocument \/ MapToDomain

SpecMapper == InitMapper /\ [][NextMapper]_vars

Codes ==
  { Num(n) : n \in {-1, 0, 200, 304, 399, 400, 401, 403, 404, 405, 408, 409,
                    410, 412, 413, 429, 449, 499, 500, 502, 503, 504} }
  \cup { Str(s) : s \in { <<>>, <<"E", "C", "O", "N", "N", "R", "E", "S", "E", "T">>,
                          <<"4", "0", "4">>, <<"4", "0", "9">>, <<"4", "2", "9">>,
                          <<"5", "0", "3">> } }
  \cup { NoCode }

Failures ==
  { [kind |-> k, code |-> code, message |-> message] :
      k \in {"object"}, code \in Codes,
      message \in {UNDEF, "", "Request rate is large"} }
  \cup { [kind |-> k, code |-> NoCode, message |-> UNDEF] :
           k \in {"primitive", "null", "undefined"} }

InitTranslator ==
  /\ store = [i \in {} |-> UNDEF]
  /\ pc = [c \in Callers |-> Idle]
  /\ created = [i \in Ids |-> <<>>]
  /\ last = [op |-> "none"]
  /\ probe \in { [op |-> "failure", error |-> e] : e \in Failures }

Translate ==
  /\ probe.op = "failure"
  /\ probe' = [op |-> "translated", error |-> probe.error,
               result |-> mapCosmosError(probe.error)]
  /\ UNCHANGED <<store, pc, created, last>>

NextTranslator == Translate

SpecTranslator == InitTranslator /\ [][NextTranslator]_vars

-----------------------------------------------------------------------------
(* Properties                                                              *)

RepoCall == last.op \in {"create", "get"}

Returned == RepoCall /\ last.outcome.type = "return"

Failed(code, message) ==
  /\ Returned
  /\ ~last.outcome.value.success
  /\ last.outcome.value.error = RepositoryError(code, message)

Succeeded == Returned /\ last.outcome.value.success

\* C1: create and get never throw: every completed call returned a result,
\* and when a failure was raised while it ran (by toDocument or by the store
\* call) the result is success = false with the Error Translator's output
\* for that failure.
C1_NeverThrows ==
  RepoCall =>
    /\ last.outcome.type = "return"
    /\ last.reply.kind = "throw" =>
         /\ ~last.outcome.value.success
         /\ mapCosmosError(last.reply.error).type = "return"
         /\ last.outcome.value.error = mapCosmosError(last.reply.error).value

\* The error kind the translation policy assigns to a failure: by its numeric
\* code if it has one, PERSISTENCE_ERROR if it has none.
PolicyKind(error) ==
  IF ~Nullish(error) /\ error.code.t = "number"
  THEN IF error.code.n = 409 THEN "ALREADY_EXISTS"
       ELSE IF error.code.n = 404 THEN "NOT_FOUND"
       ELSE IF 400 <= error.code.n /\ error.code.n < 500 THEN "VALIDATION_ERROR"
       ELSE "PERSISTENCE_ERROR"
  ELSE "PERSISTENCE_ERROR"

\* C2: mapCosmosError is total and picks the error kind by first match: 409
\* ALREADY_EXISTS, 404 NOT_FOUND, any other code in [400, 500)
\* VALIDATION_ERROR, every other failure (also one without a numeric code)
\* PERSISTENCE_ERROR.
C2_TranslatorTotal ==
  probe.op = "translated" =>
    /\ probe.result.type = "return"
    /\ probe.result.value.code = PolicyKind(probe.error)

\* C3: once create(P) has returned success, a get(P.id) that the store
\* answers returns success with data equal to P on every domain field
\* (createdAt the same instant) and carrying no other field.
C3_CreateThenGet ==
  (last.op = "get" /\ created[last.id] # <<>> /\ last.via = "store") =>
    /\ Succeeded
    /\ DOMAIN last.outcome.value.data = DomainFields
    /\ last.outcome.value.data = created[last.id][1]

C3_Witness ==
  /\ last.op = "get" /\ last.via = "store" /\ Succeeded
  /\ created[last.id] = <<Cable(last.id)>>
  /\ \E i \in Ids \ {last.id} : created[i] # <<>>

\* C4: a create of an id the store already holds never returns success, and
\* when the store answers the insert the result is ALREADY_EXISTS with the
\* fixed message.
C4_CreateExisting ==
  (last.op = "create" /\ last.held) =>
    /\ ~Succeeded
    /\ last.via = "store" =>
         Failed("ALREADY_EXISTS", "A product with this ID already exists")

C4_Witness ==
  /\ last.op = "create" /\ last.held /\ last.via = "store"
  /\ last.reply = Thrown(Conflict)
  /\ Failed("ALREADY_EXISTS", "A product with this ID already exists")

\* C5: a get of an id no stored product has returns NOT_FOUND on both ways
\* the store signals absence: the response without a resource (message
\* "Product with ID '<id>' not found") and the thrown 404 (message "Product
\* not found").
C5_GetAbsent ==
  (last.op = "get" /\ ~last.held /\ last.via = "store") =>
    /\ last.reply.kind \in {"empty", "throw"}
    /\ last.reply.kind = "empty" =>
         /\ last.id = "PROD-100" =>
              Failed("NOT_FOUND", "Product with ID 'PROD-100' not found")
         /\ last.id = "PROD-200" =>
              Failed("NOT_FOUND", "Product with ID 'PROD-200' not found")
    /\ last.reply.kind = "throw" =>
         /\ last.reply.error.code = Num(404)
         /\ Failed("NOT_FOUND", "Product not found")

C5_Witness ==
  /\ last.op = "get" /\ ~last.held /\ last.reply.kind = "empty"
  /\ last.id = "PROD-200" /\ "PROD-100" \in DOMAIN store
  /\ Failed("NOT_FOUND", "Product with ID 'PROD-200' not found")

\* C6: for every product with a valid createdAt, toDomain(toDocument(P)) is P
\* on every domain field, createdAt the same instant, and the document in
\* between has the domain fields and none of the storage metadata fields.
C6_RoundTrip ==
  /\ (probe.op \in {"document", "domain"} /\ ~probe.product.createdAt.nan) =>
       /\ probe.document.type = "return"
       /\ DOMAIN probe.document.value = DomainFields
       /\ DOMAIN probe.document.value \cap MetaFields = {}
  /\ probe.op = "domain" =>
       /\ DOMAIN probe.domain = DomainFields
       /\ \A f \in DomainFields \ {"createdAt"} :
            probe.domain[f] = probe.product[f]
       /\ ~probe.domain.createdAt.nan
       /\ probe.domain.createdAt.day = probe.product.createdAt.day
       /\ probe.domain.createdAt.ms = probe.product.createdAt.ms

C6_Witness ==
  /\ probe.op = "domain"
  /\ probe.product.description = UNDEF
  /\ probe.product.createdAt = Date(11016, 86399999)
  /\ probe.document.value.createdAt =
       [Y |-> 2000, M |-> 2, D |-> 29, h |-> 23, m |-> 59, s |-> 59, ms |-> 999]
  /\ probe.domain.description = UNDEF

\* C7: every value create or get returns has exactly one variant populated:
\* success with data and no error, or failure with error and no data.
C7_Exclusive ==
  Returned =>
    IF last.outcome.value.success
    THEN DOMAIN last.outcome.value = {"success", "data"}
    ELSE DOMAIN last.outcome.value = {"success", "error"}

C7_Witness ==
  /\ last.op = "create" /\ last.reply.kind = "empty" /\ Returned
  /\ DOMAIN last.outcome.value = {"success", "error"}
  /\ \E c \in Callers : pc[c].op = "get"

C9_NoResource ==
  (last.op = "create" /\ last.reply.kind = "empty") =>
    Failed("PERSISTENCE_ERROR", "Failed to create product - no resource returned")

C9_Witness ==
  /\ last.op = "create" /\ last.reply.kind = "empty"
  /\ last.id \in DOMAIN store
  /\ Failed("PERSISTENCE_ERROR", "Failed to create product - no resource returned")

\* C10: concurrent creates of one id.  A create issues one insert and no
\* read; at most one create of an id returns success; a create the store
\* answers on a held id returns ALREADY_EXISTS; and a get that succeeds
\* after a successful create returns the product passed to that create.
C10_OneWinner ==
  /\ \A i \in Ids : Len(created[i]) <= 1
  /\ last.op = "create" =>
       /\ last.issued = IF last.product.createdAt.nan THEN <<>> ELSE <<"insert">>
       /\ (last.held /\ last.via = "store") =>
            (Returned /\ ~last.outcome.value.success
               /\ last.outcome.value.error.code = "ALREADY_EXISTS")
       /\ Succeeded => created[last.id] = <<last.product>>
  /\ (last.op = "get" /\ Succeeded /\ created[last.id] # <<>>) =>
       last.outcome.value.data = created[last.id][1]

C10_Witness ==
  /\ last.op = "create" /\ Succeeded
  /\ created[last.id] = <<last.product>>
  /\ \E c \in Callers :
       /\ pc[c].op = "create"
       /\ pc[c].document.id = last.id
       /\ pc[c].product # last.product

====
